---- MODULE Spec2Model ----
(***************************************************************************)
(* Model of the S3 upload gateway: aws.S3Client (src/aws/aws.go) and the   *)
(* fiber request handlers that call it (src/unnamed/part_000, part_001).   *)
(*                                                                         *)
(* Each fiber handler runs in its own goroutine.  A handler's local        *)
(* computation is folded into the step that next touches shared state:     *)
(* the object store (PutObject, RemoveObject) or S3Client.tokenMap.        *)
(* tokenMap is a plain Go map used without any lock, so an access to it is *)
(* an interval that other handlers' accesses may overlap.                  *)
(***************************************************************************)
EXTENDS Integers, Sequences, FiniteSets, TLC

\* ---- bounds ----
NumHandlers == 2      \* goroutines serving requests concurrently
MaxFiles == 3         \* files in one multipart batch
MaxNames == 2         \* object names generated in one run
MaxRequests == 3      \* requests served in one run

Handlers == 1..NumHandlers

\* ---- values ----
\* SECRET_TOKEN of the environment: unset, or the configured secret.
NoSecret == ""
Secret == "sekret"
\* a key the server never used: a token under it is a tampered token
WrongKey == "guess"
Secrets == {NoSecret, Secret}

\* Object names.  Generated names are 1..MaxNames; ClientName is a name a
\* client made up, which no upload ever generates; NoName is the empty name.
ClientName == 0
NoName == -1

\* http status codes (net/http)
StatusOK == 200
StatusBadRequest == 400
StatusUnauthorized == 401
StatusNotFound == 404
StatusInternalServerError == 500
NoStatus == 0

VARIABLES
    secretEnv,   \* os.Getenv("SECRET_TOKEN")
    tokenMap,    \* S3Client.tokenMap: token -> FileInfo
    bucket,      \* object names stored in the bucket of the object store
    nextName,    \* number of object names generated so far
    h,           \* per handler: the request it serves and where it is in it
    crashed,     \* the Go runtime ended the process (fatal error)
    response,    \* the request answered by the step just taken, with its answer
    requests,    \* requests received so far
    issued,      \* the (token, file_name) results successful uploads returned
    removed      \* object names whose delete request answered 200

vars == <<secretEnv, tokenMap, bucket, nextName, h, crashed, response, requests, issued, removed>>

\* ---- pure functions ----

\* hex(HMAC-SHA256(key = secretToken, message = fileName)), as a term: two
\* digests are equal exactly when key and message are.
GenerateToken(secretToken, fileName) == [key |-> secretToken, msg |-> fileName]

\* a token that is the digest of nothing the server computes
NoToken == [key |-> NoSecret, msg |-> NoName]

\* the comparison of the presented token with the expected one
TokenMismatchNever(token, expectedToken) == FALSE
TokenMismatchKeyOnly(token, expectedToken) == token.key # expectedToken.key
TokenMismatch(token, expectedToken) == token # expectedToken

\* FileInfo{FileName, ExpiredAt}; ExpiredAt is never read by the program.
FileInfo(fileName) == [FileName |-> fileName]

\* ReqLinkResponse{Status: 200, Token, FileName, URL}; the URL is the store's.
ReqLinkResponse(token, fileName) == [Token |-> token, FileName |-> fileName]

\* if secretToken == ""
MissingSecretNever(secretToken) == FALSE
MissingSecret(secretToken) == secretToken = NoSecret

\* s.tokenMap[token] = fileInfo
MapAssign(m, token, fileInfo) ==
    [t \in DOMAIN m \cup {token} |-> IF t = token THEN fileInfo ELSE m[t]]

\* delete(s.tokenMap, token)
MapDelete(m, token) == [t \in DOMAIN m \ {token} |-> m[t]]

\* the entries the range loop of DeleteFile matches
Matching(m, fileName) == {t \in DOMAIN m : m[t].FileName = fileName}

\* the maps the loop of DeleteFile can leave: the first match met is deleted
\* and the loop breaks; Go's iteration order is unspecified.
RemoveFirstMatching(m, fileName) ==
    IF Matching(m, fileName) = {} THEN {m}
    ELSE {MapDelete(m, t) : t \in Matching(m, fileName)}

\* the status DeleteFile returns for the error of RemoveObject
DeleteStatusNoNotFound(err) ==
    IF err = "nil" THEN StatusOK ELSE StatusInternalServerError
DeleteStatus(err) ==
    IF err = "nil" THEN StatusOK
    ELSE IF err = "NoSuchKey" THEN StatusNotFound
    ELSE StatusInternalServerError

\* ---- handler state ----
Idle ==
    [op |-> "idle", pc |-> "idle", files |-> 0, i |-> 0,
     fileName |-> NoName, token |-> NoToken,
     responses |-> <<>>, returned |-> <<>>,
     status |-> NoStatus, err |-> "nil", calls |-> 0, raced |-> FALSE]

InMap == {p \in Handlers : h[p].pc = "inmap"}

Init ==
    /\ secretEnv \in Secrets
    /\ tokenMap = << >>
    /\ bucket = {}
    /\ nextName = 0
    /\ h = [p \in Handlers |-> Idle]
    /\ crashed = FALSE
    /\ response = Idle
    /\ requests = 0
    /\ issued = {}
    /\ removed = {}

\* ---- the requests clients can make ----
\* A generated name is 32 random hex digits and a random UUID: a client can
\* name an object only once an upload has returned its name.
KnownNames == {r.FileName : r \in issued} \cup {ClientName}
\* Tokens a client can present for a name: the token an upload returned for
\* it, its digest under the secret (by whoever holds the secret), a digest
\* under another key (tampered), and the valid token of another name.
PresentedTokens(fileName) ==
    {r.Token : r \in {x \in issued : x.FileName = fileName}}
    \cup {GenerateToken(Secret, fileName), GenerateToken(WrongKey, fileName),
          GenerateToken(Secret, ClientName)}

Uploads == {"UploadFileFromStream", "UploadMultipleFilesFromStream"}

\* ---- unsynchronised access to tokenMap ----
\* Does handler q's access write the map?  The insert always does; the loop
\* of DeleteFile does when it finds an entry to delete.
Writes(q, rec) ==
    \/ rec.op \in Uploads
    \/ Matching(tokenMap, rec.fileName) # {}

\* Handler p starts its access.  When it overlaps an access of another
\* handler and one of the two writes, the accesses race (Go's map is not
\* safe for concurrent use).
Races(p, rec) == InMap # {} /\ (Writes(p, rec) \/ \E q \in InMap : Writes(q, h[q]))

EnterMap(p, rec) ==
    [q \in Handlers |->
        IF q = p THEN [rec EXCEPT !.pc = "inmap", !.raced = Races(p, rec)]
        ELSE IF q \in InMap /\ Races(p, rec) THEN [h[q] EXCEPT !.raced = TRUE]
        ELSE h[q]]

\* What a map access can do: take effect; or, when it raced, be lost in the
\* corrupted map or be caught by the runtime ("fatal error: concurrent map
\* writes" / "concurrent map iteration and map write").
AccessOutcomes(p) ==
    IF h[p].raced THEN {"applied", "lost", "fatal"} ELSE {"applied"}

\* What a racing insert can do besides: s.tokenMap[token] = fileInfo is
\* mapassign, which stores the key and returns the value's slot, and then the
\* store of fileInfo into that slot.  When another handler's write moves the
\* entry in between, the key stays in the map with the zero FileInfo.
InsertOutcomes(p) ==
    AccessOutcomes(p) \cup (IF h[p].raced THEN {"torn"} ELSE {})

\* A request is served by a goroutine of its own; goroutines have no
\* identity, so the free handler of lowest number stands for it.
Free(p) == h[p].pc = "idle" /\ \A q \in Handlers : q < p => h[q].pc # "idle"

\* The handler answers: the answer is sent and the goroutine is free.
Answer(p, rec, status, cause, returned) ==
    /\ h' = [h EXCEPT ![p] = Idle]
    /\ response' = [rec EXCEPT !.pc = "done", !.status = status, !.err = cause,
                           !.returned = returned, !.raced = FALSE]

\* ---- POST /upload, one file (UploadFileFromStream) ----
UploadFileRequest(p, formOK) ==
    /\ ~crashed /\ Free(p) /\ requests < MaxRequests
    /\ requests' = requests + 1
    /\ LET rec == [Idle EXCEPT !.op = "UploadFileFromStream", !.files = 1, !.i = 1] IN
       IF formOK
       THEN h' = [h EXCEPT ![p] = [rec EXCEPT !.pc = "put"]] /\ response' = Idle
       ELSE Answer(p, rec, StatusBadRequest, "form", <<>>)
    /\ UNCHANGED <<secretEnv, tokenMap, bucket, nextName, crashed, issued, removed>>

\* ---- POST /upload, a batch (UploadMultipleFilesFromStream) ----
UploadMultipleRequest(p, n) ==
    /\ ~crashed /\ Free(p) /\ requests < MaxRequests
    /\ requests' = requests + 1
    /\ LET rec == [Idle EXCEPT !.op = "UploadMultipleFilesFromStream",
                               !.files = n, !.i = 1] IN
       IF n = 0
       THEN Answer(p, rec, StatusBadRequest, "form", <<>>)
       ELSE IF MissingSecret(secretEnv)
       THEN Answer(p, rec, StatusInternalServerError, "secret", <<>>)
       ELSE h' = [h EXCEPT ![p] = [rec EXCEPT !.pc = "put"]] /\ response' = Idle
    /\ UNCHANGED <<secretEnv, tokenMap, bucket, nextName, crashed, issued, removed>>

\* what an upload returns when a step fails: no results, and the error
ReturnedOnErrorPartial(rec) == rec.responses
ReturnedOnError(rec) == <<>>

\* what a failed upload leaves of the files it stored before: it returns
\* at once and removes nothing
BucketOnError(rec) == bucket

\* One file of an upload up to its insert into tokenMap: generateFileID,
\* uuid.New, file.Open, Client.PutObject, GenerateToken and
\* Client.PresignedGetObject; outcome names the first step that fails.
\* UploadFileFromStream reads SECRET_TOKEN only after the object was stored.
StoreFile(p, outcome) ==
    /\ ~crashed /\ h[p].pc = "put" /\ nextName < MaxNames
    /\ nextName' = nextName + 1
    /\ LET fileName == nextName + 1
           rec == [h[p] EXCEPT !.fileName = fileName] IN
       CASE outcome = "open" ->
              /\ Answer(p, rec, StatusInternalServerError, "open", ReturnedOnError(rec))
              /\ bucket' = BucketOnError(rec)
         [] outcome = "put" ->
              /\ Answer(p, [rec EXCEPT !.calls = @ + 1], StatusInternalServerError,
                        "put", ReturnedOnError(rec))
              /\ bucket' = BucketOnError(rec)
         [] outcome \in {"presign", "ok"} ->
              IF rec.op = "UploadFileFromStream" /\ MissingSecret(secretEnv)
              THEN /\ Answer(p, [rec EXCEPT !.calls = @ + 1], StatusInternalServerError,
                             "secret", ReturnedOnError(rec))
                   /\ bucket' = BucketOnError(rec) \cup {fileName}
              ELSE LET signed == [rec EXCEPT !.calls = @ + 2,
                                     !.token = GenerateToken(secretEnv, fileName)] IN
                   IF outcome = "presign"
                   THEN /\ Answer(p, signed, StatusInternalServerError, "presign",
                                  ReturnedOnError(signed))
                        /\ bucket' = BucketOnError(rec) \cup {fileName}
                   ELSE /\ h' = EnterMap(p, signed) /\ response' = Idle
                        /\ bucket' = bucket \cup {fileName}
    /\ UNCHANGED <<secretEnv, requests, tokenMap, crashed, issued, removed>>

\* s.tokenMap[token] = fileInfo, the append to responses, and the next
\* iteration or the return.
RecordUpload(p, outcome) ==
    /\ ~crashed /\ h[p].pc = "inmap" /\ h[p].op \in Uploads
    /\ outcome \in InsertOutcomes(p)
    /\ IF outcome = "fatal"
       THEN /\ crashed' = TRUE
            /\ response' = Idle
            /\ UNCHANGED <<tokenMap, h, issued>>
       ELSE /\ crashed' = crashed
            /\ tokenMap' = CASE outcome = "applied" ->
                                   MapAssign(tokenMap, h[p].token, FileInfo(h[p].fileName))
                              [] outcome = "torn" ->
                                   MapAssign(tokenMap, h[p].token, FileInfo(NoName))
                              [] outcome = "lost" -> tokenMap
            /\ LET rec == [h[p] EXCEPT
                            !.responses = Append(@, ReqLinkResponse(h[p].token, h[p].fileName)),
                            !.raced = FALSE] IN
               IF h[p].i < h[p].files
               THEN /\ h' = [h EXCEPT ![p] = [rec EXCEPT !.i = @ + 1, !.pc = "put"]]
                    /\ response' = Idle
                    /\ issued' = issued
               ELSE /\ Answer(p, rec, StatusOK, "nil", rec.responses)
                    /\ issued' = issued \cup {rec.responses[k] : k \in 1..Len(rec.responses)}
    /\ UNCHANGED <<secretEnv, requests, bucket, nextName, removed>>

\* ---- GET /download/:filename/:token ----
\* a download that looks the token up in the registry instead of deriving it
DownloadByRegistry(p, fileName, token, ok) ==
    /\ ~crashed /\ Free(p) /\ requests < MaxRequests
    /\ requests' = requests + 1
    /\ LET rec == [Idle EXCEPT !.op = "download", !.fileName = fileName, !.token = token] IN
       IF MissingSecret(secretEnv)
       THEN ok /\ Answer(p, rec, StatusInternalServerError, "secret", <<>>)
       ELSE IF token \notin Matching(tokenMap, fileName)
       THEN ok /\ Answer(p, rec, StatusUnauthorized, "token", <<>>)
       ELSE IF ~ok
       THEN Answer(p, [rec EXCEPT !.calls = 1], StatusInternalServerError, "presign", <<>>)
       ELSE Answer(p, [rec EXCEPT !.calls = 1], StatusOK, "nil", <<>>)
    /\ UNCHANGED <<secretEnv, tokenMap, bucket, nextName, crashed, issued, removed>>

\* ok: does Client.PresignedGetObject succeed (read only when it is called)
GenerateDownloadURLWithFileNameAndToken(p, fileName, token, ok) ==
    /\ ~crashed /\ Free(p) /\ requests < MaxRequests
    /\ requests' = requests + 1
    /\ LET rec == [Idle EXCEPT !.op = "download", !.fileName = fileName, !.token = token] IN
       IF MissingSecret(secretEnv)
       THEN ok /\ Answer(p, rec, StatusInternalServerError, "secret", <<>>)
       ELSE IF TokenMismatch(token, GenerateToken(secretEnv, fileName))
       THEN ok /\ Answer(p, rec, StatusUnauthorized, "token", <<>>)
       ELSE IF ~ok
       THEN Answer(p, [rec EXCEPT !.calls = 1], StatusInternalServerError, "presign", <<>>)
       ELSE Answer(p, [rec EXCEPT !.calls = 1], StatusOK, "nil", <<>>)
    /\ UNCHANGED <<secretEnv, tokenMap, bucket, nextName, crashed, issued, removed>>

\* ---- DELETE /delete/:filename/:token ----
\* the errors Client.RemoveObject can return for an object name
RemoveErrors(fileName) ==
    {"nil", "other"} \cup (IF fileName \in bucket THEN {} ELSE {"NoSuchKey"})

\* the handler's checks and DeleteFile up to its return or its loop; err is
\* the error of Client.RemoveObject (read only when it is called)
DeleteRequest(p, fileName, token, err) ==
    /\ ~crashed /\ Free(p) /\ requests < MaxRequests
    /\ requests' = requests + 1
    /\ LET rec == [Idle EXCEPT !.op = "delete", !.fileName = fileName, !.token = token] IN
       IF MissingSecret(secretEnv)
       THEN /\ err = "nil"
            /\ Answer(p, rec, StatusInternalServerError, "secret", <<>>)
            /\ bucket' = bucket
       ELSE IF TokenMismatch(token, GenerateToken(secretEnv, fileName))
       THEN /\ err = "nil"
            /\ Answer(p, rec, StatusUnauthorized, "token", <<>>)
            /\ bucket' = bucket
       ELSE /\ err \in RemoveErrors(fileName)
            /\ IF err = "nil"
               THEN /\ h' = [h EXCEPT ![p] = [rec EXCEPT !.pc = "scan", !.calls = 1]]
                    /\ response' = Idle
                    /\ bucket' = bucket \ {fileName}
               ELSE /\ Answer(p, [rec EXCEPT !.calls = 1], DeleteStatus(err), err, <<>>)
                    /\ bucket' = bucket
    /\ UNCHANGED <<secretEnv, tokenMap, nextName, crashed, issued, removed>>

\* DeleteFile starts to range over s.tokenMap
DeleteScan(p) ==
    /\ ~crashed /\ h[p].pc = "scan"
    /\ h' = EnterMap(p, h[p])
    /\ response' = Idle
    /\ UNCHANGED <<secretEnv, requests, tokenMap, bucket, nextName, crashed, issued, removed>>

\* the loop deletes the first matching entry, and DeleteFile returns 200
DeleteEntry(p, outcome) ==
    /\ ~crashed /\ h[p].pc = "inmap" /\ h[p].op = "delete"
    /\ outcome \in AccessOutcomes(p)
    /\ IF outcome = "fatal"
       THEN /\ crashed' = TRUE
            /\ response' = Idle
            /\ UNCHANGED <<tokenMap, h, removed>>
       ELSE /\ crashed' = crashed
            /\ IF outcome = "applied"
               THEN tokenMap' \in RemoveFirstMatching(tokenMap, h[p].fileName)
               ELSE tokenMap' = tokenMap
            /\ Answer(p, h[p], DeleteStatus("nil"), "nil", <<>>)
            /\ removed' = removed \cup {h[p].fileName}
    /\ UNCHANGED <<secretEnv, requests, bucket, nextName, issued>>

Next ==
    \/ \E p \in Handlers, formOK \in BOOLEAN : UploadFileRequest(p, formOK)
    \/ \E p \in Handlers, n \in 0..MaxFiles : UploadMultipleRequest(p, n)
    \/ \E p \in Handlers, outcome \in {"open", "put", "presign", "ok"} : StoreFile(p, outcome)
    \/ \E p \in Handlers, outcome \in {"applied", "lost", "torn", "fatal"} :
           RecordUpload(p, outcome)
    \/ \E p \in Handlers, fileName \in KnownNames, ok \in BOOLEAN :
         \E token \in PresentedTokens(fileName) :
           GenerateDownloadURLWithFileNameAndToken(p, fileName, token, ok)
    \/ \E p \in Handlers, fileName \in KnownNames, err \in {"nil", "NoSuchKey", "other"} :
         \E token \in PresentedTokens(fileName) :
           DeleteRequest(p, fileName, token, err)
    \/ \E p \in Handlers : DeleteScan(p)
    \/ \E p \in Handlers, outcome \in {"applied", "lost", "fatal"} : DeleteEntry(p, outcome)

Spec == Init /\ [][Next]_vars

\* ---- the claims ----
Validated(r) == r.token = [key |-> secretEnv, msg |-> r.fileName]
IssuedNames == {r.FileName : r \in issued}
Quiet == \A p \in Handlers : h[p].pc = "idle"

\* C1: the registry (tokenMap) is accessed under mutual exclusion: never are
\* two request handlers inside a registry read or write at the same time.
C1_MutualExclusion == Cardinality(InMap) <= 1

\* C2: a download or delete request whose token differs from
\* deriveToken(secret, objectName), with the secret configured, is answered
\* 401, makes no object-store call (presign, remove), and leaves the registry
\* (and the bucket) unchanged; no such request gets past the check.
C2_MismatchStep ==
    /\ (/\ response'.op \in {"download", "delete"}
        /\ secretEnv # NoSecret
        /\ ~Validated(response'))
       => /\ response'.status = StatusUnauthorized
          /\ response'.calls = 0
          /\ tokenMap' = tokenMap
          /\ bucket' = bucket
    /\ \A p \in Handlers : h'[p].op = "delete" => Validated(h'[p])
C2_MismatchRejected == [][C2_MismatchStep]_vars
C2_Witness ==
    /\ response.op = "delete" /\ response.status = StatusUnauthorized
    /\ response.fileName \in IssuedNames /\ ~Validated(response)
    /\ Matching(tokenMap, response.fileName) # {}
    /\ response.fileName \in bucket

\* C3 (as claimed): when the k-th file of a batch is the first whose
\* putObject fails, exactly k-1 successful results are returned to the caller.
C3_PartialResultsReturned ==
    (response.op = "UploadMultipleFilesFromStream" /\ response.err = "put")
    => Len(response.returned) = response.i - 1

\* C3 (amended): when the k-th file of a batch is the first whose putObject
\* fails, the caller gets no results at all (nil and the error, answered 500)
\* although k-1 files were processed, and no file after the k-th is
\* attempted: the store was called twice for each of the k-1 files (put,
\* presign) and once for the k-th.
C3_NoResultsOnPutFailure ==
    (response.op = "UploadMultipleFilesFromStream" /\ response.err = "put")
    => /\ response.returned = <<>>
       /\ response.status = StatusInternalServerError
       /\ Len(response.responses) = response.i - 1
       /\ response.calls = 2 * (response.i - 1) + 1
C3_Witness ==
    /\ response.op = "UploadMultipleFilesFromStream" /\ response.err = "put"
    /\ response.files = 3 /\ response.i = 2
    /\ Len(response.responses) = 1 /\ response.returned = <<>>

\* C4: download and delete accept token T for name N iff T is
\* deriveToken(secret, N) for the configured secret; so every (file_name,
\* token) pair a successful upload returned is accepted by any later download
\* or delete, whatever happened in between.
C4_AcceptIffDerived ==
    /\ (response.op \in {"download", "delete"} /\ secretEnv # NoSecret)
       => (response.status # StatusUnauthorized <=> Validated(response))
    /\ \A r \in issued : r.Token = [key |-> secretEnv, msg |-> r.FileName]
    /\ (/\ response.op \in {"download", "delete"}
        /\ ReqLinkResponse(response.token, response.fileName) \in issued)
       => response.status # StatusUnauthorized
C4_Witness ==
    /\ response.op = "download" /\ response.status = StatusOK
    /\ ReqLinkResponse(response.token, response.fileName) \in issued
    /\ response.fileName \in removed

\* C5: once an upload has recorded (token, record) and a delete of
\* record.StoredObjectName has been answered 200, no registry entry maps to
\* that StoredObjectName.
C5_RegistryConsistency ==
    \A n \in removed \cap IssuedNames : Matching(tokenMap, n) = {}

\* C6: a delete with a valid token whose backend removal fails is answered at
\* once, after that single removal call: 404 when the backend reports
\* NoSuchKey, 500 for any other failure, the registry unchanged; and the scan
\* of the registry starts only after a removal that succeeded.
C6_DeleteFailureStep ==
    /\ (/\ response'.op = "delete" /\ Validated(response')
        /\ secretEnv # NoSecret /\ response'.err # "nil")
       => /\ response'.status =
                IF response'.err = "NoSuchKey" THEN StatusNotFound
                ELSE StatusInternalServerError
          /\ response'.calls = 1
          /\ tokenMap' = tokenMap
          /\ bucket' = bucket
          /\ removed' = removed
    /\ \A p \in Handlers :
         (h'[p].op = "delete" /\ h'[p].pc \in {"scan", "inmap"})
         => (h'[p].calls = 1 /\ h'[p].fileName \notin bucket')
    /\ \A p \in Handlers :
         (h[p].op = "delete" /\ tokenMap' # tokenMap /\ h'[p] # h[p])
         => h[p].pc = "inmap"
C6_DeleteFailureSurfaced == [][C6_DeleteFailureStep]_vars
C6_Witness ==
    /\ response.op = "delete" /\ response.status = StatusNotFound
    /\ response.fileName \in IssuedNames /\ response.fileName \in removed
    /\ tokenMap # << >>

\* C7: N concurrent successful uploads of distinct files followed by N
\* concurrent successful deletes of exactly those names end with the registry
\* empty, under every interleaving, with no panic and no lost update.
C7_RegistryEndsEmpty ==
    /\ ~crashed
    /\ (/\ Quiet
        /\ Cardinality(IssuedNames) = nextName
        /\ IssuedNames \subseteq removed)
       => tokenMap = << >>

DownloadAnswers(secretToken, fileName, token) ==
    IF secretToken = NoSecret THEN {StatusInternalServerError}
    ELSE IF token # [key |-> secretToken, msg |-> fileName] THEN {StatusUnauthorized}
    ELSE {StatusOK, StatusInternalServerError}
C9_DownloadStep ==
    response'.op = "download"
    => /\ tokenMap' = tokenMap
       /\ bucket' = bucket
       /\ issued' = issued /\ removed' = removed
       /\ response'.status \in
            DownloadAnswers(secretEnv, response'.fileName, response'.token)
       /\ (Validated(response') /\ secretEnv # NoSecret)
          => response'.status = IF response'.err = "presign"
                                THEN StatusInternalServerError ELSE StatusOK
C9_DownloadStateless == [][C9_DownloadStep]_vars
C9_Witness ==
    /\ response.op = "download" /\ response.status = StatusOK
    /\ response.fileName \in removed \cap IssuedNames
    /\ Matching(tokenMap, response.fileName) = {}
    /\ tokenMap # << >>

\* C10: fail-fast without rollback: when a batch upload aborts at file k
\* (store or presign failure), every file before k is still in the bucket and
\* its registry entry is present; the failing file has no registry entry, and
\* it is in the bucket exactly when its store succeeded (so a file whose
\* presign failed stays stored, unregistered).
C10_EarlierFilesKept ==
    (response.op = "UploadMultipleFilesFromStream" /\ response.err \in {"put", "presign"})
    => /\ \A k \in 1..Len(response.responses) :
            /\ response.responses[k].FileName \in bucket
            /\ Matching(tokenMap, response.responses[k].FileName) # {}
       /\ Len(response.responses) = response.i - 1
       /\ Matching(tokenMap, response.fileName) = {}
       /\ response.fileName \in bucket <=> response.err = "presign"

\* The part of C10 that is about the abort itself: the step at which the
\* batch aborts removes nothing.  The registry is exactly as before it, every
\* file before k is in the bucket, and the failing file is unregistered and
\* stored exactly when its store succeeded.
AbortStep ==
    (response'.op = "UploadMultipleFilesFromStream" /\ response'.err \in {"put", "presign"})
    => /\ tokenMap' = tokenMap
       /\ bucket \subseteq bucket'
       /\ \A k \in 1..Len(response'.responses) :
            response'.responses[k].FileName \in bucket'
       /\ Matching(tokenMap', response'.fileName) = {}
       /\ response'.fileName \in bucket' <=> response'.err = "presign"
AbortRemovesNothing == [][AbortStep]_vars

\* C11: registry key invariant: with the secret unchanged, every registry
\* entry (token -> record) has token = deriveToken(secret,
\* record.StoredObjectName), and no two entries carry the same
\* StoredObjectName, so the delete scan that stops at the first matching
\* entry leaves no entry of that name.
C11_RegistryKeyInvariant ==
    /\ \A t \in DOMAIN tokenMap :
         t = [key |-> secretEnv, msg |-> tokenMap[t].FileName]
    /\ \A t1, t2 \in DOMAIN tokenMap :
         tokenMap[t1].FileName = tokenMap[t2].FileName => t1 = t2
    /\ \A t \in DOMAIN tokenMap :
         \A m \in RemoveFirstMatching(tokenMap, tokenMap[t].FileName) :
            Matching(m, tokenMap[t].FileName) = {}
====
